---------------------------- MODULE Spec2Model ----------------------------
(***************************************************************************)
(* A model of the module graph runtime of core/module.c: module            *)
(* instances, the module namespace, the gate fabric (connect_modules,      *)
(* disconnect_modules, grow_gates) and create_module / destroy_module.     *)
(*                                                                         *)
(* Pointers are addresses: a module is an index of `modules', a gate an    *)
(* index of `gates' (the heap of struct gate), a task an index of `tasks'; *)
(* 0 is NULL and the domain of each heap is the set of allocated           *)
(* addresses.  Every C function is an operator from a state record         *)
(* [modules, gates, tasks, ns, fds, fault] to a record holding the new     *)
(* state and the value returned; the actions apply them to the variables.  *)
(* fds is the set of open file descriptors.  fault records that the        *)
(* process has stopped: a failed assert ("assert") or a dereference of a   *)
(* freed gate ("uaf").  callstack is the worker's struct callstack and     *)
(* tracing tells whether the worker is between _trace_start and            *)
(* _trace_end.  loggers is the thread's array of struct logger of          *)
(* core/log.c, one per priority.                                           *)
(***************************************************************************)
EXTENDS Integers, Sequences, FiniteSets, TLC

VARIABLES modules, gates, tasks, ns, fds, fault, callstack, tracing, loggers

vars ==
  <<modules, gates, tasks, ns, fds, fault, callstack, tracing, loggers>>

(***************************************************************************)
(* Bounds of the model.                                                    *)
(***************************************************************************)
\* addresses rte_zmalloc can hand out for the modules of one class
MaxPerClass == 3
\* modules of each class the graph specification keeps alive at once
MaxSources == 1
MaxChecksums == 2
MaxSinks == 1
\* gate indexes the callers pass
MaxGateIdx == 2
\* modules the naming specification keeps alive at once
MaxNamed == 3
\* the task slots of a module (module.h); the model keeps them few
MAX_TASKS_PER_MODULE == 3
\* modules the task specification keeps alive at once
MaxTaskModules == 2
\* the highest file descriptor open() can return: descriptors 3 .. MaxFd
MaxFd == 5
\* packets in a batch delivered on an edge
MaxBatch == 2

(***************************************************************************)
(* Constants of module.h.                                                  *)
(***************************************************************************)
MAX_GATES == 8192
MODULE_NAME_LEN == 128

\* the width of gate_idx_t (uint16_t)
GateIdxMod == 65536

\* the value of a pointer whose object was freed while the pointer was kept
Dangling == -1

\* (task_id_t) -1
INVALID_TASK_ID == 65535

\* limits of the capture path
PCAP_SNAPLEN == 65535
PIPE_BUF == 4096
\* sizeof(struct pcap_rec_hdr)
PcapRecHdrSize == 16
\* RTE_PKTMBUF_HEADROOM: the head position of a packet as received
PktHeadroom == 128
\* the first descriptor open() can return (0, 1, 2 are the standard streams)
FirstFd == 3

\* limits of the per-worker trace
MAX_TRACE_DEPTH == 32
MAX_TRACE_BUFSIZE == 4096
\* strlen of "Worker 0 TASK     | my_ipchecksum0"
TraceStartLen == 34
\* strlen of " ---(32)--> my_ipchecksum0"
TraceCallLen == 26

ClassNames == <<"Source", "MyIPChecksum", "Sink", "PortOut", "Switch">>

MaxModules == Len(ClassNames) * MaxPerClass

(***************************************************************************)
(* Addresses.  The code never compares the addresses of two modules or of  *)
(* two gates nor computes with them, so the heap is modelled up to a       *)
(* renaming of addresses: rte_zmalloc hands out, for a module, the lowest  *)
(* free address of the range set aside for its class (and NULL when the    *)
(* range is used up), and for the gate about to be installed in a slot the *)
(* address set aside for that slot.                                        *)
(***************************************************************************)
ClassIndex(c) == CHOOSE k \in 1..Len(ClassNames) : ClassNames[k] = c

ModAddrs(c) ==
  ((ClassIndex(c) - 1) * MaxPerClass + 1)..(ClassIndex(c) * MaxPerClass)

OGateAddr(m, idx) == (m - 1) * MAX_GATES + idx + 1

IGateAddr(m, idx) == (MaxModules + m - 1) * MAX_GATES + idx + 1

(***************************************************************************)
(* Characters and strings.  A C string is a sequence of one-character      *)
(* strings; an optional string (a char * that may be NULL) is <<>> for     *)
(* NULL and <<s>> for the string s.                                        *)
(***************************************************************************)
UpperChars ==
  <<"A","B","C","D","E","F","G","H","I","J","K","L","M",
    "N","O","P","Q","R","S","T","U","V","W","X","Y","Z">>

LowerChars ==
  <<"a","b","c","d","e","f","g","h","i","j","k","l","m",
    "n","o","p","q","r","s","t","u","v","w","x","y","z">>

DigitChars == <<"0","1","2","3","4","5","6","7","8","9">>

isupper(c) == \E k \in 1..26 : UpperChars[k] = c

islower(c) == \E k \in 1..26 : LowerChars[k] = c

tolower(c) ==
  IF isupper(c) THEN LowerChars[CHOOSE k \in 1..26 : UpperChars[k] = c] ELSE c

\* "%d" of a non-negative int
RECURSIVE FormatInt(_)
FormatInt(i) ==
  IF i < 10 THEN <<DigitChars[i + 1]>>
  ELSE FormatInt(i \div 10) \o <<DigitChars[(i % 10) + 1]>>

\* what snprintf(dst, size, ...) leaves in dst for the formatted text s
Snprintf(size, s) ==
  IF Len(s) < size THEN s ELSE SubSeq(s, 1, size - 1)

(***************************************************************************)
(* Module classes (struct mclass): the classes registered in the model.    *)
(***************************************************************************)
Str_Source == <<"S","o","u","r","c","e">>
Str_MyIPChecksum == <<"M","y","I","P","C","h","e","c","k","s","u","m">>
Str_Sink == <<"S","i","n","k">>
Str_PortOut == <<"P","o","r","t","O","u","t">>
Str_out == <<"o","u","t">>
Str_Switch == <<"S","w","i","t","c","h">>

MClass(name, defname, nig, nog, pb, rt, init) ==
  [name |-> name, def_module_name |-> defname, num_igates |-> nig,
   num_ogates |-> nog, process_batch |-> pb, run_task |-> rt,
   init |-> init]

Classes ==
  [c \in {ClassNames[k] : k \in 1..Len(ClassNames)} |->
     CASE c = "Source"       -> MClass(Str_Source, <<>>, 0, 2, FALSE, TRUE, FALSE)
       [] c = "MyIPChecksum" -> MClass(Str_MyIPChecksum, <<>>, 1, 1, TRUE, FALSE, TRUE)
       [] c = "Sink"         -> MClass(Str_Sink, <<>>, 2, 0, TRUE, FALSE, FALSE)
       [] c = "PortOut"      -> MClass(Str_PortOut, <<Str_out>>, 1, 0, TRUE, FALSE, TRUE)
       [] c = "Switch"       -> MClass(Str_Switch, <<>>, MAX_GATES, MAX_GATES, TRUE, FALSE, FALSE)]

(***************************************************************************)
(* The heap.                                                               *)
(***************************************************************************)
\* a struct gate as rte_zmalloc returns it
ZeroGate ==
  [m |-> 0, gate_idx |-> 0, f |-> "", arg |-> 0, igate |-> 0,
   igate_idx |-> 0, ogates_upstream |-> <<>>, tcpdump |-> 0, fifo_fd |-> 0]

\* a struct module as rte_zmalloc returns it
ZeroModule ==
  [mclass |-> "", name |-> <<>>, ogates |-> <<>>, igates |-> <<>>,
   tasks |-> [id \in 1..MAX_TASKS_PER_MODULE |-> 0]]

\* the heap h with address a allocated and holding v; with a freed
Alloc(h, a, v) == [x \in DOMAIN h \cup {a} |-> IF x = a THEN v ELSE h[x]]

Free(h, a) == [x \in DOMAIN h \ {a} |-> h[x]]

State ==
  [modules |-> modules, gates |-> gates, tasks |-> tasks, ns |-> ns,
   fds |-> fds, fault |-> fault]

FreeModIds(st, c) == ModAddrs(c) \ DOMAIN st.modules

Min(S) == CHOOSE x \in S : \A y \in S : x <= y

(***************************************************************************)
(* The namespace (namespace.h): a map from names to modules.               *)
(***************************************************************************)
ns_lookup(st, name) == IF name \in DOMAIN st.ns THEN st.ns[name] ELSE 0

\* [ns, ret]
ns_insert(st, name, m) ==
  IF name \in DOMAIN st.ns
  THEN [ns |-> st.ns, ret |-> "-EEXIST"]
  ELSE [ns |-> [n \in DOMAIN st.ns \cup {name} |->
                  IF n = name THEN m ELSE st.ns[n]],
        ret |-> "0"]

ns_remove(st, name) == [n \in DOMAIN st.ns \ {name} |-> st.ns[n]]

find_module(st, name) == ns_lookup(st, name)

(***************************************************************************)
(* set_default_name                                                        *)
(***************************************************************************)
\* SnakeAt with '_' before every uppercase letter but the first character
SnakeAt_every_upper(template, k) ==
  IF k # 1 /\ isupper(template[k])
  THEN <<"_", tolower(template[k])>>
  ELSE <<tolower(template[k])>>

\* CamelCase -> camel_case: the characters written for template[k]
SnakeAt(template, k) ==
  IF k # 1 /\ islower(template[k - 1]) /\ isupper(template[k])
  THEN <<"_", tolower(template[k])>>
  ELSE <<tolower(template[k])>>

RECURSIVE SnakeFrom(_, _)
SnakeFrom(template, k) ==
  IF k > Len(template) THEN <<>>
  ELSE SnakeAt(template, k) \o SnakeFrom(template, k + 1)

CamelToSnake(template) == SnakeFrom(template, 1)

\* fmt without its trailing "%d"
DefaultNameBase(mclass) ==
  IF Classes[mclass].def_module_name # <<>>
  THEN Classes[mclass].def_module_name[1]
  ELSE CamelToSnake(Classes[mclass].name)

\* ProbeName that numbers the module by the count of live modules
ProbeName_by_count(st, base, i) ==
  [name |-> Snprintf(MODULE_NAME_LEN,
                     base \o FormatInt(i + Cardinality(DOMAIN st.modules))),
   ok |-> TRUE]

\* the loop over i: [name, ok]; ok is FALSE when assert(ret < MODULE_NAME_LEN)
\* fails
RECURSIVE ProbeName(_, _, _)
ProbeName(st, base, i) ==
  LET full == base \o FormatInt(i)
      name == Snprintf(MODULE_NAME_LEN, full)
  IN IF ~(Len(full) < MODULE_NAME_LEN) THEN [name |-> name, ok |-> FALSE]
     ELSE IF find_module(st, name) = 0 THEN [name |-> name, ok |-> TRUE]
     ELSE ProbeName(st, base, i + 1)

set_default_name(st, mclass) == ProbeName(st, DefaultNameBase(mclass), 0)

(***************************************************************************)
(* register_module and create_module                                       *)
(***************************************************************************)
\* register_module that replaces an entry already in the namespace
register_module_overwrite(st, name, m) ==
  [ns |-> [n \in DOMAIN st.ns \cup {name} |->
             IF n = name THEN m ELSE st.ns[n]],
   ret |-> "0"]

\* [ns, ret]
register_module(st, name, m) ==
  LET r == ns_insert(st, name, m)
  IN IF r.ret # "0" THEN [ns |-> st.ns, ret |-> r.ret]
     ELSE [ns |-> r.ns, ret |-> "0"]

\* the allocations and hooks of create_module that may fail
CreateFails == {"none", "module", "name", "init"}

CreateResult(st, m, err) == [st |-> st, ret |-> m, err |-> err]

\* after m and m->name are allocated: name the module, init it, register it
create_named(st, name, mclass, fail, m) ==
  LET dflt == set_default_name(st, mclass)
      mname == IF name = <<>> THEN dflt.name
               ELSE Snprintf(MODULE_NAME_LEN, name[1])
      reg == register_module(st, mname, m)
      made == [ZeroModule EXCEPT !.mclass = mclass, !.name = mname]
  IN IF name = <<>> /\ ~dflt.ok
       THEN CreateResult([st EXCEPT !.fault = "assert"], 0, "")
     ELSE IF Classes[mclass].init /\ fail = "init"
       THEN CreateResult(st, 0, "init")
     ELSE IF reg.ret # "0"
       THEN CreateResult(st, 0, reg.ret)
     ELSE CreateResult([st EXCEPT !.modules = Alloc(@, m, made),
                                  !.ns = reg.ns],
                       m, "")

\* [st, ret, err]: ret is the module, 0 for NULL; err is *perr
create_module(st, name, mclass, fail) ==
  IF name # <<>> /\ find_module(st, name[1]) # 0
    THEN CreateResult(st, 0, "EEXIST")
  ELSE IF fail = "module" \/ FreeModIds(st, mclass) = {}
    THEN CreateResult(st, 0, "ENOMEM")
  ELSE IF fail = "name"
    THEN CreateResult(st, 0, "ENOMEM")
  ELSE create_named(st, name, mclass, fail, Min(FreeModIds(st, mclass)))

(***************************************************************************)
(* The task registry: m->tasks[0 .. MAX_TASKS_PER_MODULE - 1] is the       *)
(* sequence tasks of the module; a slot holds 0 (NULL) or the address of a *)
(* struct task in the heap st.tasks.                                       *)
(***************************************************************************)
\* the address task_create returns for slot id of module m
TaskAddr(m, id) == (m - 1) * MAX_TASKS_PER_MODULE + id + 1

\* the arguments the callers bind tasks to
TaskArgs == {"arg0", "arg1"}

\* [st, ret]: ret is the task, 0 for NULL
task_create(st, m, arg, id, fail) ==
  IF fail THEN [st |-> st, ret |-> 0]
  ELSE [st |-> [st EXCEPT !.tasks =
                  Alloc(@, TaskAddr(m, id), [m |-> m, arg |-> arg])],
        ret |-> TaskAddr(m, id)]

\* FirstEmptySlot that never looks at slot id
FirstEmptySlot_skip(st, m, id) ==
  IF id + 1 >= MAX_TASKS_PER_MODULE THEN MAX_TASKS_PER_MODULE
  ELSE IF st.modules[m].tasks[id + 2] = 0 THEN id + 1
  ELSE MAX_TASKS_PER_MODULE

\* the loop of register_task from id on: the first empty slot, or
\* MAX_TASKS_PER_MODULE when there is none
RECURSIVE FirstEmptySlot(_, _, _)
FirstEmptySlot(st, m, id) ==
  IF ~(id < MAX_TASKS_PER_MODULE) THEN MAX_TASKS_PER_MODULE
  ELSE IF st.modules[m].tasks[id + 1] = 0 THEN id
  ELSE FirstEmptySlot(st, m, id + 1)

\* [st, ret]
register_task(st, m, arg, fail) ==
  LET id == FirstEmptySlot(st, m, 0)
      t == task_create(st, m, arg, id, fail)
  IN IF ~Classes[st.modules[m].mclass].run_task
       THEN [st |-> st, ret |-> INVALID_TASK_ID]
     ELSE IF id = MAX_TASKS_PER_MODULE
       THEN [st |-> st, ret |-> INVALID_TASK_ID]
     ELSE IF t.ret = 0
       THEN [st |-> st, ret |-> INVALID_TASK_ID]
     ELSE [st |-> [t.st EXCEPT !.modules[m].tasks[id + 1] = t.ret],
           ret |-> id]

RECURSIVE FindTask(_, _, _, _)
FindTask(st, m, t, id) ==
  IF ~(id < MAX_TASKS_PER_MODULE) THEN INVALID_TASK_ID
  ELSE IF st.modules[m].tasks[id + 1] = t THEN id
  ELSE FindTask(st, m, t, id + 1)

task_to_tid(st, t) == FindTask(st, st.tasks[t].m, t, 0)

RECURSIVE CountTasks(_, _, _)
CountTasks(st, m, id) ==
  IF ~(id < MAX_TASKS_PER_MODULE) THEN 0
  ELSE (IF st.modules[m].tasks[id + 1] # 0 THEN 1 ELSE 0)
       + CountTasks(st, m, id + 1)

num_module_tasks(st, m) == CountTasks(st, m, 0)

\* task_destroy of every task of m from slot id on
RECURSIVE DestroyTasksFrom(_, _, _)
DestroyTasksFrom(st, m, id) ==
  IF ~(id < MAX_TASKS_PER_MODULE) THEN st
  ELSE IF st.modules[m].tasks[id + 1] # 0
    THEN DestroyTasksFrom(
           [st EXCEPT !.tasks = Free(@, st.modules[m].tasks[id + 1]),
                      !.modules[m].tasks[id + 1] = 0], m, id + 1)
  ELSE DestroyTasksFrom(st, m, id + 1)

destroy_all_tasks(st, m) == DestroyTasksFrom(st, m, 0)

(***************************************************************************)
(* Gate arrays (struct gates): arr[0 .. curr_size - 1] is the sequence     *)
(* arr, curr_size its length; a slot holds 0 (NULL), the address of a      *)
(* gate, or Dangling.                                                      *)
(***************************************************************************)
is_active_gate(arr, idx) == idx < Len(arr) /\ arr[idx + 1] # 0

Zeros(n) == [k \in 1..n |-> 0]

\* DoubleUntil that doubles at most once
DoubleUntil_once(new_size, gate) ==
  IF new_size = 0 THEN 0
  ELSE IF new_size <= gate THEN (new_size * 2) % GateIdxMod
  ELSE new_size

\* while (new_size <= gate) new_size *= 2, in gate_idx_t; 0 when the loop
\* cannot end
RECURSIVE DoubleUntil(_, _)
DoubleUntil(new_size, gate) ==
  IF new_size = 0 THEN 0
  ELSE IF new_size <= gate THEN DoubleUntil((new_size * 2) % GateIdxMod, gate)
  ELSE new_size

\* new_size as grow_gates computes it from curr_size (lines 272-278); 0
\* when the loop cannot end
grow_size(curr_size, gate) ==
  LET dbl == DoubleUntil(IF curr_size # 0 THEN curr_size ELSE 1, gate)
  IN IF dbl > MAX_GATES THEN MAX_GATES ELSE dbl

\* [arr, ret]; nomem: rte_realloc returns NULL
grow_gates(arr, gate, nomem) ==
  LET new_size == grow_size(Len(arr), gate)
  IN IF new_size = 0 THEN [arr |-> arr, ret |-> "hang"]
     ELSE IF nomem THEN [arr |-> arr, ret |-> "-ENOMEM"]
     ELSE [arr |-> arr \o Zeros(new_size - Len(arr)), ret |-> "0"]

(***************************************************************************)
(* connect_modules                                                         *)
(***************************************************************************)
\* the allocations of connect_modules that may fail
ConnectFails == {"none", "grow_ogates", "grow_igates", "ogate", "igate"}

Result(st, ret) == [st |-> st, ret |-> ret]

\* connect_link without cdlist_add_tail
connect_link_no_add(st, m_prev, ogate_idx, m_next, igate_idx, ogate, igate) ==
  [st EXCEPT
     !.gates[ogate] =
        [@ EXCEPT !.m = m_prev, !.gate_idx = ogate_idx,
                  !.f = st.modules[m_next].mclass, !.arg = m_next,
                  !.igate = igate, !.igate_idx = igate_idx]]

\* lines 352-361: fill in the ogate and link it to the igate
connect_link(st, m_prev, ogate_idx, m_next, igate_idx, ogate, igate) ==
  [st EXCEPT
     !.gates[ogate] =
        [@ EXCEPT !.m = m_prev, !.gate_idx = ogate_idx,
                  !.f = st.modules[m_next].mclass, !.arg = m_next,
                  !.igate = igate, !.igate_idx = igate_idx],
     !.gates[igate].ogates_upstream = Append(@, ogate)]

\* lines 329-361, once both arrays are large enough
connect_gates(st, m_prev, ogate_idx, m_next, igate_idx, fail) ==
  IF fail = "ogate"
  THEN Result(st, "-ENOMEM")
  ELSE
    LET ogate == OGateAddr(m_prev, ogate_idx)
        s1 == [st EXCEPT !.gates = Alloc(@, ogate, ZeroGate),
                         !.modules[m_prev].ogates[ogate_idx + 1] = ogate]
        old == s1.modules[m_next].igates[igate_idx + 1]
    IN IF old # 0
       THEN Result(connect_link(s1, m_prev, ogate_idx, m_next, igate_idx,
                                ogate, old), "0")
       ELSE IF fail = "igate"
       THEN \* rte_free(ogate); the slot keeps the pointer
            Result([s1 EXCEPT !.gates = Free(@, ogate),
                              !.modules[m_prev].ogates[ogate_idx + 1] =
                                 Dangling],
                   "-ENOMEM")
       ELSE
         LET igate == IGateAddr(m_next, igate_idx)
             s2 == [s1 EXCEPT
                      !.gates =
                         Alloc(@, igate,
                               [ZeroGate EXCEPT !.m = m_next,
                                                !.gate_idx = igate_idx,
                                                !.f = s1.modules[m_next].mclass,
                                                !.arg = m_next]),
                      !.modules[m_next].igates[igate_idx + 1] = igate]
         IN Result(connect_link(s2, m_prev, ogate_idx, m_next, igate_idx,
                                ogate, igate), "0")

\* connect_checked without the is_active_gate test
connect_checked_no_busy(st, m_prev, ogate_idx, m_next, igate_idx, fail) ==
  IF igate_idx >= Len(st.modules[m_next].igates)
  THEN LET g == grow_gates(st.modules[m_next].igates, igate_idx,
                           fail = "grow_igates")
       IN IF g.ret # "0" THEN Result(st, g.ret)
          ELSE connect_gates([st EXCEPT !.modules[m_next].igates = g.arr],
                             m_prev, ogate_idx, m_next, igate_idx, fail)
  ELSE connect_gates(st, m_prev, ogate_idx, m_next, igate_idx, fail)

\* lines 319-327, once the ogate array is large enough
connect_checked(st, m_prev, ogate_idx, m_next, igate_idx, fail) ==
  IF is_active_gate(st.modules[m_prev].ogates, ogate_idx)
  THEN Result(st, "-EBUSY")
  ELSE IF igate_idx >= Len(st.modules[m_next].igates)
  THEN LET g == grow_gates(st.modules[m_next].igates, igate_idx,
                           fail = "grow_igates")
       IN IF g.ret # "0" THEN Result(st, g.ret)
          ELSE connect_gates([st EXCEPT !.modules[m_next].igates = g.arr],
                             m_prev, ogate_idx, m_next, igate_idx, fail)
  ELSE connect_gates(st, m_prev, ogate_idx, m_next, igate_idx, fail)

\* connect_modules without the test of igate_idx
connect_modules_no_igate(st, m_prev, ogate_idx, m_next, igate_idx, fail) ==
  IF ~Classes[st.modules[m_next].mclass].process_batch
    THEN Result(st, "-EINVAL")
  ELSE IF ogate_idx >= Classes[st.modules[m_prev].mclass].num_ogates
          \/ ogate_idx >= MAX_GATES
    THEN Result(st, "-EINVAL")
  ELSE IF ogate_idx >= Len(st.modules[m_prev].ogates)
    THEN LET g == grow_gates(st.modules[m_prev].ogates, ogate_idx,
                             fail = "grow_ogates")
         IN IF g.ret # "0" THEN Result(st, g.ret)
            ELSE connect_checked([st EXCEPT !.modules[m_prev].ogates = g.arr],
                                 m_prev, ogate_idx, m_next, igate_idx, fail)
  ELSE connect_checked(st, m_prev, ogate_idx, m_next, igate_idx, fail)

\* [st, ret]
connect_modules(st, m_prev, ogate_idx, m_next, igate_idx, fail) ==
  IF ~Classes[st.modules[m_next].mclass].process_batch
    THEN Result(st, "-EINVAL")
  ELSE IF ogate_idx >= Classes[st.modules[m_prev].mclass].num_ogates
          \/ ogate_idx >= MAX_GATES
    THEN Result(st, "-EINVAL")
  ELSE IF igate_idx >= Classes[st.modules[m_next].mclass].num_igates
          \/ igate_idx >= MAX_GATES
    THEN Result(st, "-EINVAL")
  ELSE IF ogate_idx >= Len(st.modules[m_prev].ogates)
    THEN LET g == grow_gates(st.modules[m_prev].ogates, ogate_idx,
                             fail = "grow_ogates")
         IN IF g.ret # "0" THEN Result(st, g.ret)
            ELSE connect_checked([st EXCEPT !.modules[m_prev].ogates = g.arr],
                                 m_prev, ogate_idx, m_next, igate_idx, fail)
  ELSE connect_checked(st, m_prev, ogate_idx, m_next, igate_idx, fail)

(***************************************************************************)
(* disconnect_modules                                                      *)
(***************************************************************************)
\* cdlist_del of item x from the list s
cdlist_del(s, x) == SelectSeq(s, LAMBDA y : y # x)

\* disconnect_gate that never frees the igate
disconnect_gate_keep_igate(st, m_prev, ogate_idx, ogate) ==
  LET igate == st.gates[ogate].igate
      s1 == [st EXCEPT !.gates[igate].ogates_upstream = cdlist_del(@, ogate)]
  IN [s1 EXCEPT !.gates = Free(@, ogate),
                !.modules[m_prev].ogates[ogate_idx + 1] = 0]

\* lines 380-392
disconnect_gate(st, m_prev, ogate_idx, ogate) ==
  LET igate == st.gates[ogate].igate
      s1 == [st EXCEPT !.gates[igate].ogates_upstream = cdlist_del(@, ogate)]
      m_next == s1.gates[igate].m
      igate_idx == s1.gates[ogate].igate_idx
      s2 == IF s1.gates[igate].ogates_upstream = <<>>
            THEN [s1 EXCEPT !.modules[m_next].igates[igate_idx + 1] = 0,
                            !.gates = Free(@, igate)]
            ELSE s1
  IN [s2 EXCEPT !.gates = Free(@, ogate),
                !.modules[m_prev].ogates[ogate_idx + 1] = 0]

\* disconnect_modules without the test of ogate_idx
disconnect_modules_no_test(st, m_prev, ogate_idx) ==
  IF ~is_active_gate(st.modules[m_prev].ogates, ogate_idx)
    THEN Result(st, "0")
  ELSE IF st.modules[m_prev].ogates[ogate_idx + 1] = Dangling
    THEN Result([st EXCEPT !.fault = "uaf"], "fault")
  ELSE Result(disconnect_gate(st, m_prev, ogate_idx,
                              st.modules[m_prev].ogates[ogate_idx + 1]), "0")

\* [st, ret]
disconnect_modules(st, m_prev, ogate_idx) ==
  IF ogate_idx >= Classes[st.modules[m_prev].mclass].num_ogates
    THEN Result(st, "-EINVAL")
  ELSE IF ~is_active_gate(st.modules[m_prev].ogates, ogate_idx)
    THEN Result(st, "0")
  ELSE IF st.modules[m_prev].ogates[ogate_idx + 1] = Dangling
    THEN \* ogate->out.igate of a freed gate
         Result([st EXCEPT !.fault = "uaf"], "fault")
  ELSE Result(disconnect_gate(st, m_prev, ogate_idx,
                              st.modules[m_prev].ogates[ogate_idx + 1]), "0")

(***************************************************************************)
(* destroy_module                                                          *)
(***************************************************************************)
\* the entry after item e of igate's upstream list, 0 for the list head;
\* for e = 0 (the head itself) this is head.next
cdlist_next(st, igate, e) ==
  LET ups == st.gates[igate].ogates_upstream
  IN IF e = 0 THEN (IF ups = <<>> THEN 0 ELSE ups[1])
     ELSE IF \E k \in 1..(Len(ups) - 1) : ups[k] = e
       THEN ups[(CHOOSE k \in 1..(Len(ups) - 1) : ups[k] = e) + 1]
     ELSE 0

\* cdlist_for_each_entry_safe over igate's upstream list, at entry ogate
\* with ogate_next saved; 0 stands for the entry that contains the list
\* head, which lies inside the igate. After the body the macro steps with
\* ogate = ogate_next, ogate_next = ogate->out.igate_upstream.next: with
\* ogate_next = 0 that is a read of head.next inside the igate, and the
\* igate is added to freed when the body has freed it. The value read
\* there is never used: the walk ends on the address of the head.
\* [st, freed]
RECURSIVE upstream_walk(_, _, _, _, _)
upstream_walk(st, igate, ogate, ogate_next, freed) ==
  IF ogate = 0 \/ st.fault # "none" THEN [st |-> st, freed |-> freed]
  ELSE LET r == disconnect_modules(st, st.gates[ogate].m,
                                   st.gates[ogate].gate_idx)
           reads_freed == /\ r.st.fault = "none"
                          /\ ogate_next = 0
                          /\ igate \notin DOMAIN r.st.gates
       IN upstream_walk(r.st, igate, ogate_next,
                        IF ogate_next = 0 THEN 0
                        ELSE cdlist_next(r.st, igate, ogate_next),
                        IF reads_freed THEN freed \cup {igate} ELSE freed)

disconnect_upstream(st, igate, ogate, ogate_next) ==
  upstream_walk(st, igate, ogate, ogate_next, {}).st

\* the first index from i on whose slot is active, Len(arr) if there is
\* none: the loops of destroy_module do nothing at the slots in between
\* (the igate loop skips them, disconnect_modules returns at once on them)
NextActive(arr, i) ==
  LET act == {k \in i..(Len(arr) - 1) : arr[k + 1] # 0}
  IN IF act = {} THEN Len(arr) ELSE Min(act)

\* lines 236-249, from igate index i on; [st, freed]
RECURSIVE igates_walk(_, _, _, _)
igates_walk(st, m, i, freed) ==
  LET k == NextActive(st.modules[m].igates, i)
      igate == st.modules[m].igates[k + 1]
      first == cdlist_next(st, igate, 0)
      w == upstream_walk(st, igate, first, cdlist_next(st, igate, first),
                         freed)
  IN IF k >= Len(st.modules[m].igates) \/ st.fault # "none"
       THEN [st |-> st, freed |-> freed]
     ELSE igates_walk(w.st, m, k + 1, w.freed)

destroy_igates(st, m, i) == igates_walk(st, m, i, {}).st

\* lines 252-253, from ogate index i on
RECURSIVE destroy_ogates(_, _, _)
destroy_ogates(st, m, i) ==
  LET k == NextActive(st.modules[m].ogates, i)
  IN IF k >= Len(st.modules[m].ogates) \/ st.fault # "none" THEN st
     ELSE destroy_ogates(disconnect_modules(st, m, k).st, m, k + 1)

\* the state after destroy_module(m)
destroy_module(st, m) ==
  LET s1 == destroy_igates(st, m, 0)
      s2 == destroy_ogates(s1, m, 0)
      s3 == destroy_all_tasks(s2, m)
  IN IF s2.fault # "none" THEN s2
     ELSE [s3 EXCEPT !.ns = ns_remove(s3, s3.modules[m].name),
                     !.modules = Free(@, m)]

(***************************************************************************)
(* Per-edge capture: enable_tcpdump, disable_tcpdump, dump_pcap_pkts.      *)
(* A packet is [head, data_len]: the offset of its first byte in the       *)
(* buffer and the number of bytes from there.                              *)
(***************************************************************************)
Fds == FirstFd..MaxFd

\* what open(fifo, O_WRONLY | O_NONBLOCK), fcntl and write of the file
\* header do in enable_tcpdump
EnableOutcomes == {"ok", "open", "fcntl", "write"}

\* what write() of one packet returns: all of it, or -1 with errno
WriteOutcomes == {"full", "EPIPE", "EAGAIN"}

\* [st, ret]: ret is the descriptor, -1 on failure; the lowest free one
open(st, fail) ==
  IF fail \/ Fds \ st.fds = {} THEN [st |-> st, ret |-> -1]
  ELSE [st |-> [st EXCEPT !.fds = @ \cup {Min(Fds \ st.fds)}],
        ret |-> Min(Fds \ st.fds)]

close(st, fd) == [st EXCEPT !.fds = @ \ {fd}]

snb_prepend(pkt, len) ==
  [pkt EXCEPT !.head = @ - len, !.data_len = @ + len]

snb_adj(pkt, len) ==
  [pkt EXCEPT !.head = @ + len, !.data_len = @ - len]

\* [st, ret]
enable_tcpdump(st, m, ogate, outcome) ==
  LET o == open(st, outcome = "open")
      fd == o.ret
      g == st.modules[m].ogates[ogate + 1]
  IN IF ~is_active_gate(st.modules[m].ogates, ogate)
       THEN Result(st, "-EINVAL")
     ELSE IF fd < 0
       THEN Result(st, "-errno")
     ELSE IF outcome = "fcntl" \/ outcome = "write"
       THEN Result(close(o.st, fd), "-errno")
     ELSE IF g = Dangling
       THEN Result([o.st EXCEPT !.fault = "uaf"], "fault")
     ELSE Result([o.st EXCEPT !.gates[g].fifo_fd = fd,
                              !.gates[g].tcpdump = 1], "0")

\* [st, ret]
disable_tcpdump(st, m, ogate) ==
  LET g == st.modules[m].ogates[ogate + 1]
  IN IF ~is_active_gate(st.modules[m].ogates, ogate)
       THEN Result(st, "-EINVAL")
     ELSE IF g = Dangling
       THEN Result([st EXCEPT !.fault = "uaf"], "fault")
     ELSE IF st.gates[g].tcpdump = 0
       THEN Result(st, "-EINVAL")
     ELSE Result(close([st EXCEPT !.gates[g].tcpdump = 0],
                       st.gates[g].fifo_fd), "0")

\* the write of packet i failed with EPIPE: the flag and the descriptor
\* stay as they are
pcap_write_failed_keep(st, gate, fd, w) == st

\* lines 583-589: the write of a packet returned -1 with errno w
pcap_write_failed(st, gate, fd, w) ==
  IF w = "EPIPE"
  THEN close([st EXCEPT !.gates[gate].tcpdump = 0,
                        !.gates[gate].fifo_fd = 0], fd)
  ELSE st

\* the loop of dump_pcap_pkts from packet i on: [st, batch]
RECURSIVE DumpFrom(_, _, _, _, _, _)
DumpFrom(st, gate, fd, batch, writes, i) ==
  IF i > Len(batch) THEN [st |-> st, batch |-> batch]
  ELSE
    LET len == batch[i].data_len
        pkt == snb_prepend(batch[i], PcapRecHdrSize)
        sent == [batch EXCEPT ![i] = pkt]
    IN IF ~(len < PCAP_SNAPLEN) \/ ~(pkt.data_len < PIPE_BUF)
         THEN [st |-> [st EXCEPT !.fault = "assert"], batch |-> sent]
       ELSE IF writes[i] # "full"
         THEN [st |-> pcap_write_failed(st, gate, fd, writes[i]),
               batch |-> sent]
       ELSE DumpFrom(st, gate, fd,
                     [batch EXCEPT ![i] = snb_adj(pkt, PcapRecHdrSize)],
                     writes, i + 1)

\* [st, batch]: the state and the packets as dump_pcap_pkts leaves them
dump_pcap_pkts(st, gate, batch, writes) ==
  DumpFrom(st, gate, st.gates[gate].fifo_fd, batch, writes, 1)

\* a batch leaves module m on ogate_idx: [st, batch] before the downstream
\* process_batch runs
deliver(st, m, ogate_idx, batch, writes) ==
  LET g == st.modules[m].ogates[ogate_idx + 1]
  IN IF g = Dangling
       THEN [st |-> [st EXCEPT !.fault = "uaf"], batch |-> batch]
     ELSE IF st.gates[g].tcpdump # 0
       THEN dump_pcap_pkts(st, g, batch, writes)
     ELSE [st |-> st, batch |-> batch]

(***************************************************************************)
(* The per-worker trace (struct callstack).  buf is modelled by its length *)
(* buflen; indent[0 .. depth - 1] is the sequence indent (a cell at or     *)
(* above depth is written by _trace_before_call before it is read).  Each  *)
(* operator gives [s, fault]: the callstack and "none", "assert" for a     *)
(* failed assert, "oob" for a write outside buf[] or indent[].             *)
(***************************************************************************)
ZeroCallstack ==
  [depth |-> 0, newlined |-> 0, indent |-> <<>>, curr_indent |-> 0,
   buflen |-> 0]

TraceResult(s, f) == [s |-> s, fault |-> f]

\* snprintf(s->buf + s->buflen, MAX_TRACE_BUFSIZE - s->buflen, ...) of a
\* text of len bytes: [ret, fault]; the size is a size_t, so a negative
\* difference is a huge size and the text is written past buf[]
trace_snprintf(buflen, len) ==
  IF buflen > MAX_TRACE_BUFSIZE
  THEN [ret |-> len, fault |-> "oob"]
  ELSE [ret |-> len, fault |-> "none"]

_trace_start(s, len) ==
  IF s.depth # 0 \/ s.buflen # 0 THEN TraceResult(s, "assert")
  ELSE LET w == trace_snprintf(s.buflen, len)
       IN TraceResult([s EXCEPT !.buflen = w.ret, !.curr_indent = w.ret],
                      w.fault)

_trace_end(s, print_out) ==
  IF s.depth # 0 THEN TraceResult(s, "assert")
  ELSE TraceResult([s EXCEPT !.buflen = 0, !.newlined = 0], "none")

_trace_before_call(s, len) ==
  LET pad == IF s.newlined # 0
             THEN trace_snprintf(s.buflen, s.curr_indent)
             ELSE [ret |-> 0, fault |-> "none"]
      w == trace_snprintf(s.buflen + pad.ret, len)
      s1 == [s EXCEPT !.indent = SubSeq(@, 1, s.depth) \o <<s.curr_indent>>,
                      !.buflen = @ + pad.ret + w.ret,
                      !.curr_indent = @ + w.ret,
                      !.depth = @ + 1,
                      !.newlined = 0]
  IN IF ~(s.depth < MAX_TRACE_DEPTH) THEN TraceResult(s, "oob")
     ELSE IF pad.fault # "none" THEN TraceResult(s, pad.fault)
     ELSE IF w.fault # "none" THEN TraceResult(s, w.fault)
     ELSE IF ~(s1.depth < MAX_TRACE_DEPTH) THEN TraceResult(s1, "assert")
     ELSE TraceResult(s1, "none")

_trace_after_call(s) ==
  LET w == IF s.newlined = 0 THEN trace_snprintf(s.buflen, 1)
           ELSE [ret |-> 0, fault |-> "none"]
      d == s.depth - 1
  IN IF d < 0 THEN TraceResult(s, "oob")
     ELSE IF w.fault # "none" THEN TraceResult(s, w.fault)
     ELSE TraceResult([s EXCEPT !.depth = d,
                                !.newlined = 1,
                                !.buflen = @ + w.ret,
                                !.curr_indent = s.indent[d + 1],
                                !.indent = SubSeq(@, 1, d)],
                      "none")

(***************************************************************************)
(* The logger of core/log.c. A struct logger is [buf, len]: buf holds the  *)
(* bytes buf[0 .. len - 1]; the bytes from buf[len] on are never read      *)
(* before vsnprintf has overwritten them, and are left out. Positions in   *)
(* buf count from 1: p = 1 is logger->buf.                                 *)
(***************************************************************************)
\* the bytes of a line of the log
MAX_LOG_LEN == 2048
MAX_LOG_PRIORITY == 7
LOG_ERR == 3
LOG_INFO == 6

\* static __thread storage is zeroed
ZeroLogger == [buf |-> <<>>, len |-> 0]

\* vsnprintf(str, size, fmt, ap) where fmt and ap format to msg: the
\* bytes stored before the terminating NUL, and the value returned
vsnprintf(size, msg) ==
  [str |-> IF size <= 0 THEN <<>>
           ELSE SubSeq(msg, 1, Min({Len(msg), size - 1})),
   ret |-> Len(msg)]

\* strchr(p, '\n') in the string buf: the position of the first newline
\* from p on, 0 for NULL
strchr(buf, p) ==
  LET lfs == {i \in p..Len(buf) : buf[i] = "\n"}
  IN IF lfs = {} THEN 0 ELSE Min(lfs)

\* do_log(priority, data, len) as the record of the call
do_log(priority, data) == [priority |-> priority, data |-> data]

\* what the thread's loggers are after a call, the calls of do_log it
\* made, and whether the assertion failed
LogResult(lg, out, f) == [lg |-> lg, out |-> out, fault |-> f]

\* lines 101-110 from position p on; [p, len, out]
RECURSIVE log_lines(_, _, _, _, _)
log_lines(priority, buf, len, p, out) ==
  LET lf == strchr(buf, p)
  IN IF lf = 0 THEN [p |-> p, len |-> len, out |-> out]
     ELSE log_lines(priority, buf, len - (lf - p + 1), lf + 1,
                    Append(out, do_log(priority, SubSeq(buf, p, lf))))

\* the message do_log gets for a message of to_write bytes that does not
\* fit
TooLarge(to_write) == <<"Too large log message", to_write>>

\* [lg, out, fault] where lg is the struct logger
log_vfmt(priority, logger, msg) ==
  LET free_space == 2 * MAX_LOG_LEN - logger.len
      v == vsnprintf(free_space, msg)
      to_write == v.ret
      buf == logger.buf \o v.str
      l == log_lines(priority, buf, logger.len + to_write, 1, <<>>)
  IN IF free_space < MAX_LOG_LEN
       THEN LogResult(logger, <<>>, "assert")
     ELSE IF to_write >= free_space
       THEN LogResult(logger, <<do_log(LOG_ERR, TooLarge(to_write))>>,
                      "none")
     ELSE LogResult([buf |-> SubSeq(buf, l.p, l.p + l.len - 1),
                     len |-> l.len],
                    l.out, "none")

\* [lg, out, fault] where lg is loggers
_log(lgs, priority, msg) ==
  IF priority < 0 \/ priority > MAX_LOG_PRIORITY
    THEN LogResult(lgs, <<>>, "none")
  ELSE LET r == log_vfmt(priority, lgs[priority], msg)
       IN LogResult([lgs EXCEPT ![priority] = r.lg], r.out, r.fault)

(***************************************************************************)
(* The program: the control context calls create_module, destroy_module,   *)
(* connect_modules and disconnect_modules one after the other.             *)
(***************************************************************************)
GateIdxs == 0..MaxGateIdx

Init ==
  /\ modules = <<>>
  /\ gates = <<>>
  /\ tasks = <<>>
  /\ ns = <<>>
  /\ fds = {}
  /\ callstack = ZeroCallstack
  /\ tracing = FALSE
  /\ loggers = [p \in 0..MAX_LOG_PRIORITY |-> ZeroLogger]
  /\ fault = "none"

Set(st) ==
  /\ modules' = st.modules
  /\ gates' = st.gates
  /\ tasks' = st.tasks
  /\ fds' = st.fds
  /\ UNCHANGED <<callstack, tracing, loggers>>
  /\ ns' = st.ns
  /\ fault' = st.fault

CreateModule(name, mclass, fail) ==
  /\ fault = "none"
  /\ LET r == create_module(State, name, mclass, fail)
     IN Set(r.st)

DestroyModule(m) ==
  /\ fault = "none"
  /\ Set(destroy_module(State, m))

Connect(m_prev, ogate_idx, m_next, igate_idx, fail) ==
  /\ fault = "none"
  /\ LET r == connect_modules(State, m_prev, ogate_idx, m_next, igate_idx,
                              fail)
     IN /\ r.ret # "hang"
        /\ Set(r.st)

Disconnect(m_prev, ogate_idx) ==
  /\ fault = "none"
  /\ LET r == disconnect_modules(State, m_prev, ogate_idx)
     IN Set(r.st)

\* the classes of the graph specification, and how many modules of each
\* the control context keeps
GraphClasses == {"Source", "MyIPChecksum", "Sink"}

GraphMax(c) ==
  CASE c = "Source" -> MaxSources
    [] c = "MyIPChecksum" -> MaxChecksums
    [] c = "Sink" -> MaxSinks

NumLive(c) == Cardinality(ModAddrs(c) \cap DOMAIN modules)

Next ==
  \/ \E c \in GraphClasses, f \in CreateFails :
       NumLive(c) < GraphMax(c) /\ CreateModule(<<>>, c, f)
  \/ \E m \in DOMAIN modules : DestroyModule(m)
  \/ \E a, b \in DOMAIN modules, i, j \in GateIdxs, f \in ConnectFails :
       Connect(a, i, b, j, f)
  \/ \E a \in DOMAIN modules, i \in GateIdxs : Disconnect(a, i)

Spec == Init /\ [][Next]_vars

\* the same calls when rte_zmalloc and rte_realloc never return NULL
NextAllocOK ==
  \/ \E c \in GraphClasses, f \in {"none", "init"} :
       NumLive(c) < GraphMax(c) /\ CreateModule(<<>>, c, f)
  \/ \E m \in DOMAIN modules : DestroyModule(m)
  \/ \E a, b \in DOMAIN modules, i, j \in GateIdxs :
       Connect(a, i, b, j, "none")
  \/ \E a \in DOMAIN modules, i \in GateIdxs : Disconnect(a, i)

SpecAllocOK == Init /\ [][NextAllocOK]_vars

(***************************************************************************)
(* The naming specification: create_module with explicit and defaulted     *)
(* names, and destroy_module.                                              *)
(***************************************************************************)
Str_fwd == <<"f","w","d">>
Str_my_ipchecksum == <<"m","y","_","i","p","c","h","e","c","k","s","u","m">>
Str_my_ip_checksum ==
  <<"m","y","_","i","p","_","c","h","e","c","k","s","u","m">>

\* MODULE_NAME_LEN - 1 times "x"
LongPrefix == [k \in 1..(MODULE_NAME_LEN - 1) |-> "x"]

\* the names the callers pass: a short one, one that is also a default
\* name, and two of MODULE_NAME_LEN bytes with the same first
\* MODULE_NAME_LEN - 1 bytes
ExplicitNames ==
  {Str_fwd, Str_my_ipchecksum \o <<"1">>, LongPrefix \o <<"a">>,
   LongPrefix \o <<"b">>}

NameClasses == {"MyIPChecksum", "PortOut"}

NextNames ==
  \/ \E n \in {<<>>} \cup {<<e>> : e \in ExplicitNames},
        c \in NameClasses, f \in CreateFails :
       Cardinality(DOMAIN modules) < MaxNamed /\ CreateModule(n, c, f)
  \/ \E m \in DOMAIN modules : DestroyModule(m)

SpecNames == Init /\ [][NextNames]_vars

(***************************************************************************)
(* The task specification: modules of a class with and of a class without  *)
(* run_task are created and destroyed, and tasks registered.               *)
(***************************************************************************)
RegisterTask(m, arg, fail) ==
  /\ fault = "none"
  /\ Set(register_task(State, m, arg, fail).st)

TaskClasses == {"Source", "Sink"}

NextTasks ==
  \/ \E c \in TaskClasses :
       /\ Cardinality(DOMAIN modules) < MaxTaskModules
       /\ CreateModule(<<>>, c, "none")
  \/ \E m \in DOMAIN modules : DestroyModule(m)
  \/ \E m \in DOMAIN modules, arg \in TaskArgs, fail \in BOOLEAN :
       RegisterTask(m, arg, fail)

SpecTasks == Init /\ [][NextTasks]_vars

(***************************************************************************)
(* The capture specification: a source and a sink are connected and        *)
(* disconnected, capture is enabled and disabled on the source's ogates    *)
(* and batches are delivered on them.                                      *)
(***************************************************************************)
EnableTcpdump(m, ogate, outcome) ==
  /\ fault = "none"
  /\ Set(enable_tcpdump(State, m, ogate, outcome).st)

DisableTcpdump(m, ogate) ==
  /\ fault = "none"
  /\ Set(disable_tcpdump(State, m, ogate).st)

Deliver(m, ogate_idx, batch, writes) ==
  /\ fault = "none"
  /\ is_active_gate(modules[m].ogates, ogate_idx)
  /\ Set(deliver(State, m, ogate_idx, batch, writes).st)

\* the lengths of the packets delivered: a small frame, and one that does
\* not fit a pipe write once the record header is prepended
PktLens == {60, PIPE_BUF - PcapRecHdrSize}

Pkts == {[head |-> PktHeadroom, data_len |-> l] : l \in PktLens}

Batches == UNION {[1..n -> Pkts] : n \in 1..MaxBatch}

PcapClasses == {"Source", "Sink"}

NextPcap ==
  \/ \E c \in PcapClasses :
       NumLive(c) < 1 /\ CreateModule(<<>>, c, "none")
  \/ \E m \in DOMAIN modules : DestroyModule(m)
  \/ \E a, b \in DOMAIN modules, i, j \in GateIdxs, f \in ConnectFails :
       Connect(a, i, b, j, f)
  \/ \E a \in DOMAIN modules, i \in GateIdxs : Disconnect(a, i)
  \/ \E m \in DOMAIN modules, i \in GateIdxs, o \in EnableOutcomes :
       EnableTcpdump(m, i, o)
  \/ \E m \in DOMAIN modules, i \in GateIdxs : DisableTcpdump(m, i)
  \/ \E m \in DOMAIN modules, i \in GateIdxs, b \in Batches :
       \E w \in [1..Len(b) -> WriteOutcomes] : Deliver(m, i, b, w)

SpecPcap == Init /\ [][NextPcap]_vars

(***************************************************************************)
(* The trace specification: a worker runs a task under _trace_start and    *)
(* _trace_end; inside, modules call downstream modules, each call between  *)
(* _trace_before_call and _trace_after_call, properly nested.              *)
(***************************************************************************)
SetTrace(r, t) ==
  /\ callstack' = r.s
  /\ fault' = r.fault
  /\ tracing' = t
  /\ UNCHANGED <<modules, gates, tasks, ns, fds, loggers>>

TraceStart ==
  /\ fault = "none"
  /\ ~tracing
  /\ SetTrace(_trace_start(callstack, TraceStartLen), TRUE)

TraceBeforeCall ==
  /\ fault = "none"
  /\ tracing
  /\ SetTrace(_trace_before_call(callstack, TraceCallLen), TRUE)

TraceAfterCall ==
  /\ fault = "none"
  /\ tracing
  /\ callstack.depth > 0
  /\ SetTrace(_trace_after_call(callstack), TRUE)

TraceEnd(print_out) ==
  /\ fault = "none"
  /\ tracing
  /\ callstack.depth = 0
  /\ SetTrace(_trace_end(callstack, print_out), FALSE)

NextTrace ==
  \/ TraceStart
  \/ TraceBeforeCall
  \/ TraceAfterCall
  \/ \E print_out \in BOOLEAN : TraceEnd(print_out)

SpecTrace == Init /\ [][NextTrace]_vars

(***************************************************************************)
(* The growth specification: a module of a class with MAX_GATES igates and *)
(* ogates is connected to itself at low and at the highest gate indexes.   *)
(***************************************************************************)
SwitchGateIdxs == {0, 2, MAX_GATES - 1, MAX_GATES}

NextGrow ==
  \/ NumLive("Switch") < 1 /\ CreateModule(<<>>, "Switch", "none")
  \/ \E m \in DOMAIN modules : DestroyModule(m)
  \/ \E a, b \in DOMAIN modules, i, j \in SwitchGateIdxs,
        f \in {"none", "grow_ogates", "grow_igates"} :
       Connect(a, i, b, j, f)
  \/ \E a \in DOMAIN modules, i \in SwitchGateIdxs : Disconnect(a, i)

SpecGrow == Init /\ [][NextGrow]_vars

(***************************************************************************)
(* Views of the gate fabric used by the properties.                        *)
(***************************************************************************)
Range(s) == {s[k] : k \in 1..Len(s)}

\* the active ogate slots <<m, idx>> and the active igate slots
ActiveOGates(st) ==
  {e \in (DOMAIN st.modules) \X GateIdxs :
     is_active_gate(st.modules[e[1]].ogates, e[2])}

ActiveIGates(st) ==
  {e \in (DOMAIN st.modules) \X GateIdxs :
     is_active_gate(st.modules[e[1]].igates, e[2])}

OGateAt(st, e) == st.modules[e[1]].ogates[e[2] + 1]

IGateAt(st, e) == st.modules[e[1]].igates[e[2] + 1]

\* no slot holds a pointer to a freed gate
NoStaleSlot(st) ==
  /\ \A e \in ActiveOGates(st) : OGateAt(st, e) \in DOMAIN st.gates
  /\ \A e \in ActiveIGates(st) : IGateAt(st, e) \in DOMAIN st.gates

\* the active ogate slots that hold a gate
LinkedOGates(st) ==
  {e \in ActiveOGates(st) : OGateAt(st, e) \in DOMAIN st.gates}

\* the edges <<m_prev, ogate_idx, m_next, igate_idx>>
Edges(st) ==
  {<<e[1], e[2], st.gates[OGateAt(st, e)].arg,
     st.gates[OGateAt(st, e)].igate_idx>> : e \in LinkedOGates(st)}

\* an active ogate refers to the active igate at slot out.igate_idx of the
\* downstream module and is in its upstream list
OGateConsistent(st, e) ==
  /\ OGateAt(st, e) \in DOMAIN st.gates
  /\ LET o == st.gates[OGateAt(st, e)]
     IN /\ o.igate \in DOMAIN st.gates
        /\ o.arg \in DOMAIN st.modules
        /\ is_active_gate(st.modules[o.arg].igates, o.igate_idx)
        /\ st.modules[o.arg].igates[o.igate_idx + 1] = o.igate
        /\ st.gates[o.igate].m = o.arg
        /\ OGateAt(st, e) \in Range(st.gates[o.igate].ogates_upstream)

\* every ogate in an active igate's upstream list has it as its downstream
IGateConsistent(st, e) ==
  /\ IGateAt(st, e) \in DOMAIN st.gates
  /\ \A o \in Range(st.gates[IGateAt(st, e)].ogates_upstream) :
       o \in DOMAIN st.gates /\ st.gates[o].igate = IGateAt(st, e)

GateFabricConsistent(st) ==
  /\ \A e \in ActiveOGates(st) : OGateConsistent(st, e)
  /\ \A e \in ActiveIGates(st) : IGateConsistent(st, e)

(***************************************************************************)
(* C1: after any sequence of completed create_module, connect_modules,     *)
(* disconnect_modules and destroy_module calls in which every allocation   *)
(* succeeds (SpecAllocOK), the gate fabric is bidirectionally consistent:  *)
(* every active ogate refers to the igate that is the active gate at slot  *)
(* out.igate_idx of its downstream module and is in that igate's upstream  *)
(* list, and every ogate in an active igate's upstream list has that igate *)
(* as its downstream.                                                      *)
(***************************************************************************)
C1_GateFabricConsistent == GateFabricConsistent(State)

\* two ogates fan into one igate and a module feeds itself
C1_Witness ==
  /\ \E e \in ActiveIGates(State) :
       Len(gates[IGateAt(State, e)].ogates_upstream) >= 2
  /\ \E x \in Edges(State) : x[1] = x[3]

(***************************************************************************)
(* C3: destroy_module(m) removes exactly the edges incident to m: in       *)
(* every reachable state and for every module m, after destroy_module(m)   *)
(* returns find_module(m.name) is null, no active ogate of a remaining     *)
(* module has m as its downstream, no igate of a remaining module lists an *)
(* ogate of m, and the edges between two other modules are the same        *)
(* active gates as before.                                                 *)
(***************************************************************************)
DestroyRemovesExactly(st, m) ==
  LET s2 == destroy_module(st, m)
  IN /\ s2.fault = "none"
     /\ m \notin DOMAIN s2.modules
     /\ find_module(s2, st.modules[m].name) = 0
     /\ \A x \in Edges(s2) : x[1] # m /\ x[3] # m
     /\ \A e \in ActiveIGates(s2) :
          /\ IGateAt(s2, e) \in DOMAIN s2.gates
          /\ \A o \in Range(s2.gates[IGateAt(s2, e)].ogates_upstream) :
               o \in DOMAIN s2.gates /\ s2.gates[o].m # m
     /\ Edges(s2) = {x \in Edges(st) : x[1] # m /\ x[3] # m}
     /\ \A e \in LinkedOGates(s2) :
          /\ OGateAt(s2, e) = OGateAt(st, e)
          /\ s2.gates[OGateAt(s2, e)] = st.gates[OGateAt(st, e)]
          /\ OGateConsistent(s2, e)

C3_DestroyRemovesExactly ==
  \A m \in DOMAIN modules : DestroyRemovesExactly(State, m)

(***************************************************************************)
(* C4: when connect_modules returns -ENOMEM (growing either gate array,    *)
(* allocating the ogate or allocating the igate failed) in a state where   *)
(* no slot refers to a freed gate, m_prev.ogates[ogate_idx] is inactive    *)
(* afterwards, still no slot refers to a freed gate, and the active edges  *)
(* are the same as before the call.                                        *)
(***************************************************************************)
NoMemLeavesGates(st, a, i, b, j, f) ==
  LET r == connect_modules(st, a, i, b, j, f)
  IN r.ret = "-ENOMEM" =>
       /\ ~is_active_gate(r.st.modules[a].ogates, i)
       /\ NoStaleSlot(r.st)
       /\ Edges(r.st) = Edges(st)

C4_NoMemLeavesGates ==
  NoStaleSlot(State) =>
    \A a, b \in DOMAIN modules, i, j \in GateIdxs, f \in ConnectFails :
      NoMemLeavesGates(State, a, i, b, j, f)

(***************************************************************************)
(* C2: after any sequence of create_module and destroy_module calls        *)
(* (explicit or defaulted names, successful or failed creations), every    *)
(* live module m satisfies find_module(m.name) = m, and no two live        *)
(* modules have the same name.                                             *)
(***************************************************************************)
C2_NamesResolve ==
  /\ \A m \in DOMAIN modules : find_module(State, modules[m].name) = m
  /\ \A m1, m2 \in DOMAIN modules :
       m1 # m2 => modules[m1].name # modules[m2].name

\* a defaulted and an explicitly named module are alive, and a creation
\* fails here
C2_Witness ==
  /\ \E m \in DOMAIN modules : modules[m].name = Str_my_ipchecksum \o <<"0">>
  /\ \E m \in DOMAIN modules : modules[m].name = LongPrefix
  /\ create_module(State, <<LongPrefix \o <<"b">>>>, "PortOut", "none").ret = 0

(***************************************************************************)
(* C5 as stated: connect_modules(a, i, c, j) on an ogate slot a.ogates[i]  *)
(* that is already active returns -EBUSY for every target (c, j) and       *)
(* leaves the graph unchanged.                                             *)
(***************************************************************************)
C5_BusyForEveryTarget ==
  \A e \in ActiveOGates(State), c \in DOMAIN modules, j \in GateIdxs,
     f \in ConnectFails :
    LET r == connect_modules(State, e[1], e[2], c, j, f)
    IN r.ret = "-EBUSY" /\ r.st = State

\* (c, j) passes the tests made before the ogate slot is looked at
ValidTarget(st, c, j) ==
  /\ Classes[st.modules[c].mclass].process_batch
  /\ j < Classes[st.modules[c].mclass].num_igates
  /\ j < MAX_GATES

(***************************************************************************)
(* C5 as amended: connect_modules(a, i, c, j) on an ogate slot that is     *)
(* already active returns -EBUSY for every target (c, j) that passes the   *)
(* earlier tests (c's class has process_batch and j < num_igates) and      *)
(* -EINVAL for every other target, and in both cases leaves the state, and *)
(* so the graph, unchanged.                                                *)
(***************************************************************************)
C5_BusyForValidTarget ==
  \A e \in ActiveOGates(State), c \in DOMAIN modules, j \in GateIdxs,
     f \in ConnectFails :
    LET r == connect_modules(State, e[1], e[2], c, j, f)
    IN /\ r.ret = IF ValidTarget(State, c, j) THEN "-EBUSY" ELSE "-EINVAL"
       /\ r.st = State

\* an ogate is connected, and another valid target and an invalid one exist
C5_Witness ==
  \E x \in Edges(State), c \in DOMAIN modules :
    /\ c # x[3]
    /\ ValidTarget(State, c, 0)
    /\ connect_modules(State, x[1], x[2], c, 0, "none").ret = "-EBUSY"
    /\ connect_modules(State, x[1], x[2], x[1], 0, "none").ret = "-EINVAL"

(***************************************************************************)
(* C6: connect_modules returns the error of the first precondition that    *)
(* fails, in the order: -EINVAL if the downstream class has no             *)
(* process_batch; else -EINVAL if ogate_idx >= num_ogates or >= MAX_GATES; *)
(* else -EINVAL if igate_idx >= num_igates or >= MAX_GATES; else -EBUSY if *)
(* the ogate slot is active; it returns -EINVAL or -EBUSY in no other      *)
(* case, and every -EINVAL return leaves the state untouched.              *)
(***************************************************************************)
FirstFailure(st, a, i, b, j) ==
  IF ~Classes[st.modules[b].mclass].process_batch THEN "-EINVAL"
  ELSE IF i >= Classes[st.modules[a].mclass].num_ogates \/ i >= MAX_GATES
    THEN "-EINVAL"
  ELSE IF j >= Classes[st.modules[b].mclass].num_igates \/ j >= MAX_GATES
    THEN "-EINVAL"
  ELSE IF (<<a, i>> \in ActiveOGates(st)) THEN "-EBUSY"
  ELSE "none"

C6_FirstFailureReturned ==
  \A a, b \in DOMAIN modules, i, j \in GateIdxs, f \in ConnectFails :
    LET r == connect_modules(State, a, i, b, j, f)
        first == FirstFailure(State, a, i, b, j)
    IN /\ first # "none" => r.ret = first
       /\ first = "none" => r.ret \notin {"-EINVAL", "-EBUSY"}
       /\ r.ret = "-EINVAL" => r.st = State

\* a busy ogate with an out-of-range igate_idx, and ogate_idx = num_ogates
C6_Witness ==
  \E x \in Edges(State), b \in DOMAIN modules :
    /\ Classes[modules[b].mclass].process_batch
    /\ Classes[modules[b].mclass].num_igates = 1
    /\ connect_modules(State, x[1], x[2], b, 1, "none").ret = "-EINVAL"
    /\ Classes[modules[x[1]].mclass].num_ogates = 2
    /\ connect_modules(State, x[1], 2, b, 0, "none").ret = "-EINVAL"

(***************************************************************************)
(* C7: for any reachable state and any a, i, b, j for which                *)
(* connect_modules(a, i, b, j) returns 0, the following                    *)
(* disconnect_modules(a, i) returns 0 and restores the prior graph: the    *)
(* active ogate slots and active igate slots of every module, every        *)
(* igate's upstream list and the set of allocated gates equal their values *)
(* before the connect (no leaked igate).                                   *)
(***************************************************************************)
UpstreamLists(st) ==
  [e \in {x \in ActiveIGates(st) : IGateAt(st, x) \in DOMAIN st.gates} |->
     st.gates[IGateAt(st, e)].ogates_upstream]

SameGraph(s1, s2) ==
  /\ ActiveOGates(s1) = ActiveOGates(s2)
  /\ ActiveIGates(s1) = ActiveIGates(s2)
  /\ UpstreamLists(s1) = UpstreamLists(s2)
  /\ s1.gates = s2.gates

RoundTrip(st, a, i, b, j, f) ==
  LET r == connect_modules(st, a, i, b, j, f)
      d == disconnect_modules(r.st, a, i)
  IN r.ret = "0" => d.ret = "0" /\ SameGraph(d.st, st)

C7_ConnectDisconnectRoundTrip ==
  \A a, b \in DOMAIN modules, i, j \in GateIdxs, f \in ConnectFails :
    RoundTrip(State, a, i, b, j, f)

\* edges exist, and a connect succeeds here that makes a new igate in an
\* igate array that has to grow
C7_Witness ==
  /\ Edges(State) # {}
  /\ \E a, b \in DOMAIN modules, i, j \in GateIdxs :
       /\ j >= Len(modules[b].igates)
       /\ connect_modules(State, a, i, b, j, "none").ret = "0"

(***************************************************************************)
(* C8: disconnect_modules(a, i) with i < num_ogates on an inactive slot    *)
(* (also one beyond the current size of the ogate array) returns 0 and     *)
(* changes nothing; with i >= num_ogates it returns -EINVAL and changes    *)
(* nothing; and a second disconnect_modules(a, i) right after a successful *)
(* one returns 0 and leaves the state as the first left it.                *)
(***************************************************************************)
DisconnectInactive(st, a, i) ==
  LET d == disconnect_modules(st, a, i)
      d2 == disconnect_modules(d.st, a, i)
  IN /\ i >= Classes[st.modules[a].mclass].num_ogates =>
          d.ret = "-EINVAL" /\ d.st = st
     /\ (i < Classes[st.modules[a].mclass].num_ogates
         /\ ~is_active_gate(st.modules[a].ogates, i)) =>
          d.ret = "0" /\ d.st = st
     /\ d.ret = "0" => d2.ret = "0" /\ d2.st = d.st

C8_DisconnectInactiveNoOp ==
  \A a \in DOMAIN modules, i \in GateIdxs : DisconnectInactive(State, a, i)

\* a module with one ogate connected, one ogate index beyond the array and
\* one beyond num_ogates
C8_Witness ==
  \E a \in DOMAIN modules :
    /\ Classes[modules[a].mclass].num_ogates = 2
    /\ Len(modules[a].ogates) = 1
    /\ is_active_gate(modules[a].ogates, 0)
    /\ disconnect_modules(State, a, 1).ret = "0"
    /\ disconnect_modules(State, a, 2).ret = "-EINVAL"

(***************************************************************************)
(* C9: in every reachable state, igate slot j of a module is active if and *)
(* only if at least one active ogate targets it, and the size of its       *)
(* upstream list equals the number of active ogates whose downstream it    *)
(* is.  With ogate 0 of two modules s1, s2 connected to k.igate 0 the list *)
(* has size 2; disconnect(s1, 0) leaves size 1 and k.igates[0] active;     *)
(* disconnect(s2, 0) then frees the igate and clears k.igates[0].          *)
(* An active ogate slot that holds a freed gate has no defined downstream: *)
(* what is read through it is whatever the freed memory holds, so the      *)
(* property has to hold whichever of these slots read as targeting (k, j). *)
(***************************************************************************)
\* the active ogates that hold a gate whose downstream is igate j of k
Targeting(st, k, j) ==
  {e \in LinkedOGates(st) :
     st.gates[OGateAt(st, e)].arg = k /\ st.gates[OGateAt(st, e)].igate_idx = j}

\* the active ogate slots that hold a freed gate
StaleOGates(st) == ActiveOGates(st) \ LinkedOGates(st)

\* stale: the slots holding a freed gate that read as targeting (k, j)
IGateLive(st, k, j, stale) ==
  LET targeting == Targeting(st, k, j) \cup stale
  IN /\ is_active_gate(st.modules[k].igates, j) <=> targeting # {}
     /\ is_active_gate(st.modules[k].igates, j) =>
          /\ IGateAt(st, <<k, j>>) \in DOMAIN st.gates
          /\ Len(st.gates[IGateAt(st, <<k, j>>)].ogates_upstream) =
               Cardinality(targeting)
          /\ \A e \in Targeting(st, k, j) :
               st.gates[OGateAt(st, e)].igate = IGateAt(st, <<k, j>>)

FanIn(st, s1, s2, k) ==
  /\ s1 # s2
  /\ Targeting(st, k, 0) = {<<s1, 0>>, <<s2, 0>>}

FanInUnwinds(st, s1, s2, k) ==
  LET ig == IGateAt(st, <<k, 0>>)
      d1 == disconnect_modules(st, s1, 0).st
      d2 == disconnect_modules(d1, s2, 0).st
  IN /\ Len(st.gates[ig].ogates_upstream) = 2
     /\ is_active_gate(d1.modules[k].igates, 0)
     /\ IGateAt(d1, <<k, 0>>) = ig
     /\ ig \in DOMAIN d1.gates
     /\ Len(d1.gates[ig].ogates_upstream) = 1
     /\ ~is_active_gate(d2.modules[k].igates, 0)
     /\ ig \notin DOMAIN d2.gates

C9_IGateLiveWhileTargeted ==
  /\ \A k \in DOMAIN modules, j \in GateIdxs :
       \A stale \in SUBSET StaleOGates(State) : IGateLive(State, k, j, stale)
  /\ \A s1, s2, k \in DOMAIN modules :
       FanIn(State, s1, s2, k) => FanInUnwinds(State, s1, s2, k)

(***************************************************************************)
(* C10 as stated: for the class "MyIPChecksum" with no def_module_name,    *)
(* three successive create_module calls with name = NULL on an empty       *)
(* namespace yield "my_ip_checksum0", "my_ip_checksum1" and                *)
(* "my_ip_checksum2": the CamelCase -> snake_case base is                  *)
(* "my_ip_checksum".                                                       *)
(***************************************************************************)
\* the names of three successive defaulted creations of class c
ThreeDefaultNames(st, c) ==
  LET r1 == create_module(st, <<>>, c, "none")
      r2 == create_module(r1.st, <<>>, c, "none")
      r3 == create_module(r2.st, <<>>, c, "none")
  IN IF r1.ret = 0 \/ r2.ret = 0 \/ r3.ret = 0 THEN <<>>
     ELSE <<r1.st.modules[r1.ret].name, r2.st.modules[r2.ret].name,
            r3.st.modules[r3.ret].name>>

Suffixed(base) == <<base \o <<"0">>, base \o <<"1">>, base \o <<"2">>>>

C10_NamesMyIpUnderscoreChecksum ==
  /\ CamelToSnake(Classes["MyIPChecksum"].name) = Str_my_ip_checksum
  /\ ns = <<>> =>
       ThreeDefaultNames(State, "MyIPChecksum") = Suffixed(Str_my_ip_checksum)

(***************************************************************************)
(* C10 as amended: the three creations yield "my_ipchecksum0",             *)
(* "my_ipchecksum1" and "my_ipchecksum2": the base is "my_ipchecksum" (an  *)
(* underscore goes only before an uppercase letter that follows a          *)
(* lowercase one).                                                         *)
(***************************************************************************)
C10_NamesMyIpchecksum ==
  /\ CamelToSnake(Classes["MyIPChecksum"].name) = Str_my_ipchecksum
  /\ ns = <<>> =>
       ThreeDefaultNames(State, "MyIPChecksum") = Suffixed(Str_my_ipchecksum)

\* the three modules are alive and no other
C10_Witness ==
  /\ Cardinality(DOMAIN modules) = 3
  /\ {modules[m].name : m \in DOMAIN modules} =
       Range(Suffixed(Str_my_ipchecksum))
  /\ \A m \in DOMAIN modules : modules[m].mclass = "MyIPChecksum"

(***************************************************************************)
(* C11: every create_module with name = NULL names the module <base><n>,   *)
(* where n is the smallest non-negative integer such that <base><n> is not *)
(* a module name at that time; a second such creation against the same     *)
(* class gets a name that differs only in the suffix; and after the module *)
(* with suffix k is destroyed while higher suffixes are live, the next     *)
(* defaulted creation against that class reuses the lowest free suffix,    *)
(* which is k when every suffix below k is taken.                          *)
(***************************************************************************)
Suffix(base, n) == base \o FormatInt(n)

\* the smallest n such that <base><n> is no module name
LowestFree(st, base) ==
  Min({n \in 0..Cardinality(DOMAIN st.ns) : Suffix(base, n) \notin DOMAIN st.ns})

\* a defaulted creation in st succeeds and takes the lowest free suffix
DefaultTakesLowest(st, c) ==
  LET r == create_module(st, <<>>, c, "none")
  IN FreeModIds(st, c) # {} =>
       /\ r.ret # 0
       /\ r.st.modules[r.ret].name =
            Suffix(DefaultNameBase(c), LowestFree(st, DefaultNameBase(c)))

\* the module m named <base><k> is destroyed and the next creation made
SuffixReused(st, c, m, k) ==
  LET base == DefaultNameBase(c)
      d == destroy_module(st, m)
      r == create_module(d, <<>>, c, "none")
  IN (/\ st.modules[m].name = Suffix(base, k)
      /\ \A j \in 0..(k - 1) : Suffix(base, j) \in DOMAIN st.ns
      /\ FreeModIds(d, c) # {})
     => r.ret # 0 /\ r.st.modules[r.ret].name = Suffix(base, k)

TaskIds == 0..(MAX_TASKS_PER_MODULE - 1)

EmptySlots(st, m) == {id \in TaskIds : st.modules[m].tasks[id + 1] = 0}

RegisterTaskContract(st, m, arg, fail) ==
  LET r == register_task(st, m, arg, fail)
      refused == \/ ~Classes[st.modules[m].mclass].run_task
                 \/ EmptySlots(st, m) = {}
                 \/ fail
  IN IF refused
     THEN r.ret = INVALID_TASK_ID /\ r.st = st
     ELSE /\ r.ret = Min(EmptySlots(st, m))
          /\ r.st.modules[m].tasks[r.ret + 1] # 0
          /\ r.st.tasks[r.st.modules[m].tasks[r.ret + 1]] =
               [m |-> m, arg |-> arg]
          /\ num_module_tasks(r.st, m) = num_module_tasks(st, m) + 1
          /\ \A m2 \in DOMAIN st.modules, id \in TaskIds :
               <<m2, id>> # <<m, r.ret>> =>
                 r.st.modules[m2].tasks[id + 1] = st.modules[m2].tasks[id + 1]

TaskSlotsCounted(st, m) ==
  /\ num_module_tasks(st, m) = Cardinality(TaskIds \ EmptySlots(st, m))
  /\ num_module_tasks(st, m) <= MAX_TASKS_PER_MODULE
  /\ \A id \in TaskIds \ EmptySlots(st, m) :
       /\ st.modules[m].tasks[id + 1] \in DOMAIN st.tasks
       /\ task_to_tid(st, st.modules[m].tasks[id + 1]) = id

C12_RegisterTaskLowestSlot ==
  \A m \in DOMAIN modules :
    /\ TaskSlotsCounted(State, m)
    /\ \A arg \in TaskArgs, fail \in BOOLEAN :
         RegisterTaskContract(State, m, arg, fail)

\* a module with every slot occupied next to one with a free slot and one
\* whose class has no run_task
C12_Witness ==
  \E m1, m2 \in DOMAIN modules :
    /\ EmptySlots(State, m1) = {}
    /\ register_task(State, m1, "arg0", FALSE).ret = INVALID_TASK_ID
    /\ ~Classes[modules[m2].mclass].run_task
    /\ register_task(State, m2, "arg0", FALSE).ret = INVALID_TASK_ID

(***************************************************************************)
(* C13: after dump_pcap_pkts returns for a batch delivered on a            *)
(* capture-enabled ogate, every packet of the batch has the head position  *)
(* and data length it had before the call, whatever each write returned    *)
(* (all bytes, EPIPE, EAGAIN).                                             *)
(***************************************************************************)
\* the active ogates that hold a gate with capture enabled
CaptureOGates(st) ==
  {e \in LinkedOGates(st) : st.gates[OGateAt(st, e)].tcpdump # 0}

C13_CaptureRestoresHead ==
  \A e \in CaptureOGates(State), b \in Batches :
    \A w \in [1..Len(b) -> WriteOutcomes] :
      LET r == dump_pcap_pkts(State, OGateAt(State, e), b, w)
      IN r.st.fault = "none" => r.batch = b

(***************************************************************************)
(* C14: when a write to a capture-enabled ogate's fifo fails with EPIPE,   *)
(* the gate's tcpdump flag is cleared and its descriptor, open until then, *)
(* is closed; a later delivery on the edge writes and closes nothing, and  *)
(* a later disable_tcpdump returns -EINVAL and closes nothing.  A write    *)
(* failing with another error, and a batch written in full, leave the flag *)
(* and the descriptor as they were.                                        *)
(***************************************************************************)
\* the errno of the first write of w that fails, "none" if all succeed
RECURSIVE FirstError(_, _)
FirstError(w, i) ==
  IF i > Len(w) THEN "none"
  ELSE IF w[i] # "full" THEN w[i]
  ELSE FirstError(w, i + 1)

\* capture on e is off in st: deliveries and disable_tcpdump touch nothing
CaptureOff(st, e) ==
  /\ st.gates[OGateAt(st, e)].tcpdump = 0
  /\ \A b \in Batches :
       \A w \in [1..Len(b) -> WriteOutcomes] :
         deliver(st, e[1], e[2], b, w) = [st |-> st, batch |-> b]
  /\ disable_tcpdump(st, e[1], e[2]) = Result(st, "-EINVAL")

EpipeDisables(st, e, b, w) ==
  LET g == OGateAt(st, e)
      fd == st.gates[g].fifo_fd
      r == deliver(st, e[1], e[2], b, w)
  IN r.st.fault = "none" =>
       IF FirstError(w, 1) = "EPIPE"
       THEN /\ fd \in st.fds
            /\ r.st.fds = st.fds \ {fd}
            /\ r.st.gates[g].fifo_fd \notin r.st.fds
            /\ r.st.modules = st.modules
            /\ CaptureOff(r.st, e)
       ELSE r.st = st

C14_EpipeDisablesCapture ==
  \A e \in CaptureOGates(State), b \in Batches :
    \A w \in [1..Len(b) -> WriteOutcomes] : EpipeDisables(State, e, b, w)

\* capture is enabled on two ogates of a module, and a delivery whose
\* second write fails with EPIPE turns it off on one of them
C14_Witness ==
  \E e1, e2 \in CaptureOGates(State), b \in Batches :
    LET r == deliver(State, e1[1], e1[2], b, <<"full", "EPIPE">>)
    IN /\ e1 # e2
       /\ Len(b) = 2
       /\ r.st.fault = "none"
       /\ CaptureOGates(r.st) = CaptureOGates(State) \ {e1}
       /\ r.st.fds = fds \ {gates[OGateAt(State, e1)].fifo_fd}

(***************************************************************************)
(* C19: capture descriptors do not leak: in every reachable state every    *)
(* open descriptor (each was opened by a successful enable_tcpdump) is the *)
(* fifo_fd of an active ogate whose tcpdump flag is set (as long as the    *)
(* process runs).                                                          *)
(***************************************************************************)
C19_NoDescriptorLeak ==
  fault = "none" =>
    \A fd \in fds :
      \E e \in CaptureOGates(State) : gates[OGateAt(State, e)].fifo_fd = fd

(***************************************************************************)
(* C15: the per-worker trace is bounded and overflow is a fatal assertion: *)
(* for any sequence of _trace_start, _trace_before_call, _trace_after_call *)
(* and _trace_end calls with properly nested before/after pairs, either an *)
(* assertion has failed, or depth is in [0, MAX_TRACE_DEPTH), buflen is in *)
(* [0, MAX_TRACE_BUFSIZE) and no write went outside indent[] or buf[].     *)
(***************************************************************************)
C15_TraceBounded ==
  \/ fault = "assert"
  \/ /\ fault # "oob"
     /\ callstack.depth \in 0..(MAX_TRACE_DEPTH - 1)
     /\ callstack.buflen \in 0..(MAX_TRACE_BUFSIZE - 1)

\* the half of C15 about depth: nesting that reaches MAX_TRACE_DEPTH stops
\* at the assertion, and indent[] is written inside its bounds
C15_DepthBounded ==
  /\ callstack.depth \in 0..MAX_TRACE_DEPTH
  /\ callstack.depth = MAX_TRACE_DEPTH => fault = "assert"
  /\ Len(callstack.indent) = callstack.depth

(***************************************************************************)
(* C16: for every gate index g < MAX_GATES and every current size,         *)
(* grow_gates terminates and leaves curr_size equal to the old size (1 if  *)
(* it was 0) doubled until it exceeds g, capped at MAX_GATES, with no      *)
(* wrap-around of the 16-bit gate_idx_t; afterwards g < curr_size <=       *)
(* MAX_GATES, the slots from the old size on are empty and the slots below *)
(* it keep their gates; and connect_modules with ogate_idx = MAX_GATES - 1 *)
(* succeeds when the class allows that index.                              *)
(***************************************************************************)
\* n doubled until it exceeds g, in the integers
RECURSIVE Doubled(_, _)
Doubled(n, g) == IF n > g THEN n ELSE Doubled(2 * n, g)

ExpectedSize(old, g) ==
  LET d == Doubled(IF old = 0 THEN 1 ELSE old, g)
  IN IF d > MAX_GATES THEN MAX_GATES ELSE d

\* sizes next to the powers of two, and some between them
SampleSizes ==
  {0, 1, 2, 3, 4, 5, 8, 1000, 4095, 4096, 4097, 5000, MAX_GATES - 1, MAX_GATES}

SampleGates ==
  {0, 1, 2, 3, 4, 7, 8, 15, 16, 1023, 1024, 4095, 4096, 4097,
   MAX_GATES - 2, MAX_GATES - 1}

GrowSizeRight(old, g) ==
  /\ grow_size(old, g) = ExpectedSize(old, g)
  /\ g < grow_size(old, g)
  /\ grow_size(old, g) <= MAX_GATES

GrowKeepsGates(arr, g) ==
  LET r == grow_gates(arr, g, FALSE)
  IN /\ r.ret = "0"
     /\ Len(r.arr) = ExpectedSize(Len(arr), g)
     /\ \A k \in 1..Len(arr) : r.arr[k] = arr[k]
     /\ \A k \in (Len(arr) + 1)..Len(r.arr) : r.arr[k] = 0

ConnectsAtLastGate(st, a, b) ==
  LET r == connect_modules(st, a, MAX_GATES - 1, b, MAX_GATES - 1, "none")
  IN (/\ Classes[st.modules[a].mclass].num_ogates = MAX_GATES
      /\ Classes[st.modules[b].mclass].num_igates = MAX_GATES
      /\ ~is_active_gate(st.modules[a].ogates, MAX_GATES - 1))
     => /\ r.ret = "0"
        /\ Len(r.st.modules[a].ogates) = MAX_GATES
        /\ is_active_gate(r.st.modules[a].ogates, MAX_GATES - 1)

C16_GrowGatesDoubles ==
  /\ \A m \in DOMAIN modules :
       /\ \A g \in 0..(MAX_GATES - 1) :
            /\ GrowSizeRight(Len(modules[m].ogates), g)
            /\ GrowSizeRight(Len(modules[m].igates), g)
       /\ \A g \in SampleGates :
            /\ GrowKeepsGates(modules[m].ogates, g)
            /\ GrowKeepsGates(modules[m].igates, g)
  /\ \A old \in SampleSizes, g \in SampleGates : GrowSizeRight(old, g)
  /\ \A a, b \in DOMAIN modules : ConnectsAtLastGate(State, a, b)

\* the ogate array has grown to MAX_GATES with gates at its first and last
\* slot, and the igate array holds gates and has not reached MAX_GATES
C16_Witness ==
  \E m \in DOMAIN modules :
    /\ Len(modules[m].ogates) = MAX_GATES
    /\ is_active_gate(modules[m].ogates, 0)
    /\ is_active_gate(modules[m].ogates, MAX_GATES - 1)
    /\ Len(modules[m].igates) = 4
    /\ is_active_gate(modules[m].igates, 2)

(***************************************************************************)
(* C17: a successful create_module with an explicit name n registers the   *)
(* module under exactly n: afterwards find_module(n) returns the created   *)
(* module, and a creation is rejected with EEXIST only when n itself is    *)
(* already a module name. This for every name n the callers pass,          *)
(* including names of MODULE_NAME_LEN bytes and two names that share       *)
(* their first MODULE_NAME_LEN - 1 bytes.                                  *)
(***************************************************************************)
\* *perr of a creation rejected because the name exists: snobj_err(EEXIST)
\* of the early test, or snobj_errno(-ret) of register_module
RejectedEEXIST(r) == r.ret = 0 /\ r.err \in {"EEXIST", "-EEXIST"}

RegisteredUnderExactly(st, n, mclass) ==
  LET r == create_module(st, <<n>>, mclass, "none")
  IN /\ r.ret # 0 => find_module(r.st, n) = r.ret
     /\ RejectedEEXIST(r) => find_module(st, n) # 0

C17_RegisteredUnderGivenName ==
  fault = "none" =>
    \A n \in ExplicitNames, c \in NameClasses :
      RegisteredUnderExactly(State, n, c)

(***************************************************************************)
(* C18: no gate is accessed after it has been freed. When destroy_module   *)
(* walks the upstream list of an igate and disconnects each upstream       *)
(* ogate, the disconnect of the last ogate frees the igate; neither the    *)
(* walk (its saved next entry, its step, its test against the list head    *)
(* inside the igate) nor the rest of destroy_module reads or writes that   *)
(* freed igate or a freed ogate. Checked for destroy_module of every live  *)
(* module at every state.                                                  *)
(***************************************************************************)
\* the freed gates the walk over the igates of m reads
FreedGatesRead(st, m) == igates_walk(st, m, 0, {}).freed

C18_NoGateAccessAfterFree ==
  fault = "none" =>
    \A m \in DOMAIN modules :
      /\ FreedGatesRead(State, m) = {}
      /\ destroy_module(State, m).fault # "uaf"

(***************************************************************************)
(* The logging specification: one thread calls _log with messages that     *)
(* are shorter than MAX_LOG_LEN, at priorities inside and outside          *)
(* 0 .. MAX_LOG_PRIORITY.                                                  *)
(***************************************************************************)
Log(priority, msg) ==
  /\ fault = "none"
  /\ LET r == _log(loggers, priority, msg)
     IN /\ loggers' = r.lg
        /\ fault' = r.fault
  /\ UNCHANGED <<modules, gates, tasks, ns, fds, callstack, tracing>>

\* MAX_LOG_LEN - 1 bytes and half of MAX_LOG_LEN bytes without a newline
LongMsg == [k \in 1..(MAX_LOG_LEN - 1) |-> "x"]
HalfMsg == [k \in 1..(MAX_LOG_LEN \div 2) |-> "x"]

\* the formatted messages of the callers
LogMsgs ==
  {<<>>, <<"\n">>, <<"a", "\n">>, <<"a", "\n", "b">>,
   <<"a", "\n", "b", "\n">>, HalfMsg, LongMsg}

LogPriorities == {-1, LOG_ERR, LOG_INFO, MAX_LOG_PRIORITY + 1}

NextLog == \E p \in LogPriorities, msg \in LogMsgs : Log(p, msg)

SpecLog == Init /\ [][NextLog]_vars

(***************************************************************************)
(* C20: the logger's buffer assertion holds under its contract. In every   *)
(* state reached by _log calls of one thread whose formatted messages are  *)
(* all shorter than MAX_LOG_LEN, a further such call at any priority finds *)
(* free_space = 2 * MAX_LOG_LEN - len >= MAX_LOG_LEN; it passes to do_log  *)
(* every complete line of the retained bytes followed by the message, each *)
(* once, in order and up to and including its newline, and retains only    *)
(* the unterminated tail, at the start of the buffer.                      *)
(***************************************************************************)
RECURSIVE Joined(_)
Joined(out) == IF out = <<>> THEN <<>> ELSE out[1].data \o Joined(Tail(out))

IsLine(s) == s # <<>> /\ strchr(s, 1) = Len(s)

LogCallRight(lgs, priority, msg) ==
  LET r == _log(lgs, priority, msg)
      old == lgs[priority]
      new == r.lg[priority]
  IN /\ 2 * MAX_LOG_LEN - old.len >= MAX_LOG_LEN
     /\ r.fault = "none"
     /\ \A k \in 1..Len(r.out) :
          r.out[k].priority = priority /\ IsLine(r.out[k].data)
     /\ Joined(r.out) \o new.buf = old.buf \o msg
     /\ strchr(new.buf, 1) = 0
     /\ new.len = Len(new.buf)
     /\ \A q \in DOMAIN lgs : q # priority => r.lg[q] = lgs[q]

C20_LoggerAssertionHolds ==
  fault = "none" =>
    \A p \in LogPriorities \cap (0..MAX_LOG_PRIORITY), msg \in LogMsgs :
      Len(msg) < MAX_LOG_LEN => LogCallRight(loggers, p, msg)

=============================================================================
